---------------------------- MODULE Spec2Model ----------------------------
(***************************************************************************)
(* Surface plane tracking, reticle and placement of the AR viewer.         *)
(*                                                                         *)
(* The imperative viewer (src/unnamed/part_001, "tile" variant, and        *)
(* src/unnamed/part_003, "grid" variant) is modelled as one state machine: *)
(* the mutable `app` object, the React state that decides which closures   *)
(* exist, the listeners registered on the XR controller, and the sensing   *)
(* subsystem's planes.                                                     *)
(*                                                                         *)
(* The declarative viewer and the raw WebGL viewer of src/src/App.jsx and   *)
(* the mock viewer of src/unnamed/part_000 have their own variables and   *)
(* specifications.                                                         *)
(*                                                                         *)
(* Lengths are in decimetres, the up-vector component in hundredths, so    *)
(* that the numbers of the source stay integers.                           *)
(***************************************************************************)
EXTENDS Integers, Sequences, FiniteSets, TLC

\* ----------------------------------------------------------------- bounds
MaxSessions == 2      \* sessions started one after the other
MaxItems    == 2      \* meshes placed by selection events
MaxStamp    == 1      \* largest lastChangedTime the sensing subsystem reports
MaxSegments == 8      \* largest third argument given to createTileTexture
MaxRequests == 2      \* hit-test source requests counted in one session
MaxClock    == 4      \* largest value of Date.now(), in milliseconds

\* ------------------------------------------------------------ value spaces
Variants     == {"tile", "grid"}          \* part_001, part_003
PlaneIds     == {"A", "B"}                \* XRPlane objects of one session
Orientations == {"horizontal", "vertical"}
Modes        == {"Tile", "Textile"}

Pose(p, u) == [pos |-> p, upY |-> u]
\* new THREE.Mesh(): matrix is the identity
IdentityMatrix == Pose(<<0, 0, 0>>, 100)
\* hit-test poses: a floor hit at (1, 0, 2) and a hit whose up.y is exactly 0.5
FloorHit   == Pose(<<10, 0, 20>>, 100)
TiltedHit  == Pose(<<0, 10, 0>>, 50)
HitPoses   == {FloorHit, TiltedHit}
\* plane poses: y = 0.0 and y = -0.2
PlanePoses == {Pose(<<0, 0, 0>>, 100), Pose(<<0, -2, 0>>, 100)}
\* getPose returned null (a record, so that it compares with the poses)
NoPose     == Pose(<< >>, 0)

Square   == << <<0, 0>>, <<10, 0>>, <<10, 10>>, <<0, 10>> >>
Triangle == << <<0, 0>>, <<10, 0>>, <<0, 10>> >>
Polygons == {Square, Triangle}
\* a boundary of two points, which encloses nothing
Segment  == << <<0, 0>>, <<10, 0>> >>

\* no hit-test result in the frame
NoHit == Pose(<< >>, -1)

VARIABLES
  variant,                 \* which source file is running
  session,                 \* a.renderer.xr.getSession(): 0 = none, else its number
  sessionsStarted,         \* sessions created so far
  planeDetection,          \* the session was granted 'plane-detection'
  loopAlive,               \* the animation loop still requests frames
  isARActive,              \* React state isARActive (the START AR button shows when false)
  mode,                    \* React state mode
  modeRef,                 \* modeRef.current
  onSelectId,              \* identity of the committed render's onSelect closure
  selectListeners,         \* closures registered for "select" on controller 0
  hitTestSourceRequested,  \* a.hitTestSourceRequested
  hitTestSource,           \* a.hitTestSource: 0 = null, else the session it is of
  pendingSource,           \* sessions whose hit-test source promise is in flight
  requests,                \* hit-test sources requested in the session so far
  reticle,                 \* a.reticle: visible, matrix, material.color
  planes,                  \* a.planes: XRPlane -> mesh
  scenePlanes,             \* plane meshes that are children of a.scene
  items,                   \* meshes added to a.scene by onSelect, in order
  world,                   \* the sensing subsystem's planes
  lastReported,            \* frame.detectedPlanes of the latest frame
  textures,                \* a.floorTexture and a.wallTexture
  dReticle,                \* declarative viewer: the reticle mesh (ref.current)
  dIsFloor,                \* declarative viewer: React state isFloor
  dItems,                  \* declarative viewer: React state items
  dRendered,               \* declarative viewer: the state the committed render saw
  raw,                     \* raw WebGL viewer: startAR, the session, its frame loop
  mock,                    \* mock viewer: the clock, React state objects, queued updaters
  last                     \* the handler that ran last, and what it was given

vars == << variant, session, sessionsStarted, planeDetection, loopAlive,
           isARActive, mode, modeRef, onSelectId, selectListeners,
           hitTestSourceRequested, hitTestSource, pendingSource, requests,
           reticle, planes, scenePlanes, items, world, lastReported, textures,
           dReticle, dIsFloor, dItems, dRendered, raw, mock, last >>

declVars  == << dReticle, dIsFloor, dItems, dRendered >>
otherVars == << raw, mock >>

envVars   == << world >>
reactVars == << isARActive, mode, modeRef, onSelectId >>
hitVars   == << hitTestSourceRequested, hitTestSource, pendingSource,
               requests >>
planeVars == << planes, scenePlanes >>
imperativeVars == << variant, session, sessionsStarted, planeDetection,
                     loopAlive, reactVars, selectListeners, hitVars, reticle,
                     planeVars, items, world, lastReported >>

\* ------------------------------------------------------------------ ghost
\* op: the handler; tested, nresults, top: whether getHitTestResults was
\* called, how many results it gave and the first of them; threw: the handler
\* ended in an exception; posed, rebuilt: the planes that had a pose and those
\* whose geometry was replaced; poses: what getPose gave for each reported
\* plane; visibleBefore, before, added: the reticle's visibility and the
\* number of planes or items when the handler began, and the number of items
\* it added; replaced: the geometries the handler took out of use, as it
\* left them; args: the arguments of a call of createTileTexture
Ran(op) == [op |-> op, tested |-> FALSE, nresults |-> 0, top |-> NoHit,
            threw |-> FALSE, posed |-> {}, rebuilt |-> {}, poses |-> << >>,
            replaced |-> {}, args |-> << >>,
            visibleBefore |-> FALSE, before |-> 0, added |-> 0]

\* ------------------------------------------------------ sensing subsystem
Unseen == [status |-> "unseen", orientation |-> "horizontal",
           polygon |-> Square, lastChangedTime |-> 0]

\* an XRPlane that left the set is never reported again
Gone == [status |-> "gone", orientation |-> "horizontal",
         polygon |-> Square, lastChangedTime |-> 0]

Live == {p \in PlaneIds : world[p].status = "live"}

\* frame.detectedPlanes: undefined when the feature was not granted
DetectedPlanes == IF planeDetection THEN Live ELSE {}

\* frame.detectedPlanes is undefined
DetectedPlanesAbsent == ~planeDetection

\* mutant: updatePlanes goes on to the forEach whatever detectedPlanes is
ReturnsEarly_never(absent) == FALSE

\* if (!detectedPlanes) return;   (an empty set is truthy)
ReturnsEarly(absent) == absent

\* detectedPlanes.forEach(...) on undefined is a TypeError
ForEachThrows(absent) == ~ReturnsEarly(absent) /\ absent

\* --------------------------------------------------------- plane classifier
HalfUp == 50          \* the 0.5 of Math.abs(up.y) > 0.5

Abs(x) == IF x < 0 THEN -x ELSE x

\* (0, 1, 0) through the pose's rotation: the y of the matrix's second column
UpAxisY(m) == m.upY

\* mutant: the boundary 0.5 counted as horizontal
ClassifyPose_inclusive(m) ==
  IF Abs(UpAxisY(m)) >= HalfUp THEN "horizontal" ELSE "vertical"

ClassifyPose(m) ==
  IF Abs(UpAxisY(m)) > HalfUp THEN "horizontal" ELSE "vertical"

ReticleColor(c) == IF c = "horizontal" THEN "0x00ff00" ELSE "0x00ffff"

\* ------------------------------------------------------------- geometries
InfiniteSize == 1000  \* new THREE.PlaneGeometry(1000, 1000)

EmptyGeometry       == [type |-> "BufferGeometry", polygon |-> << >>, size |-> 0,
                        disposed |-> FALSE]
InfiniteGeometry    == [type |-> "PlaneGeometry", polygon |-> << >>,
                        size |-> InfiniteSize, disposed |-> FALSE]
ShapeGeometry(poly) == [type |-> "ShapeGeometry", polygon |-> poly, size |-> 0,
                        disposed |-> FALSE]

\* new THREE.Shape() with moveTo / lineTo(point.x, point.z), then new
\* THREE.ShapeGeometry(shape): one vertex per point, in the XY plane
ShapeVertices(poly) == [i \in DOMAIN poly |-> << poly[i][1], poly[i][2], 0 >>]

\* geometry.rotateX(-Math.PI / 2): y' = z, z' = -y
RotateX(v) == << v[1], v[3], 0 - v[2] >>

\* geometry.attributes.position of a bounded geometry
PositionOf(g) ==
  [i \in DOMAIN g.polygon |-> RotateX(ShapeVertices(g.polygon)[i])]

UvScale == 5          \* const scale = 5.0 (part_003)

\* geometry.attributes.uv of a bounded geometry: part_001 writes (x, z) of the
\* rotated vertex, part_003 writes 5 * (x, z) for a horizontal plane and
\* leaves ShapeGeometry's own uv, the point of the shape, for a vertical one
UvOf(v, o, g) ==
  [i \in DOMAIN g.polygon |->
     IF v = "tile"
     THEN << PositionOf(g)[i][1], PositionOf(g)[i][3] >>
     ELSE IF o = "horizontal"
          THEN << PositionOf(g)[i][1] * UvScale, PositionOf(g)[i][3] * UvScale >>
          ELSE << ShapeVertices(g.polygon)[i][1], ShapeVertices(g.polygon)[i][2] >>]

\* geometry.dispose()
Dispose(g) == [g EXCEPT !.disposed = TRUE]

\* mutant: the new geometry is assigned first, and dispose() then falls on it
Install_late(mesh, g) ==
  [mesh |-> [mesh EXCEPT !.geometry = Dispose(g)], old |-> {mesh.geometry}]

\* if (planeMesh.geometry) planeMesh.geometry.dispose();
\* planeMesh.geometry = geometry;
Install(mesh, g) ==
  [mesh |-> [mesh EXCEPT !.geometry = g], old |-> {Dispose(mesh.geometry)}]

\* geometry.attributes.position exists
HasPosition(g) == g.type # "BufferGeometry"

IsInfinite(mesh) == mesh.geometry.type = "PlaneGeometry"

\* mutant: every plane gets the material of a floor
MaterialFor_floor(v, o) ==
  IF v = "tile" THEN [map |-> "floorTexture", opacity |-> 70]
  ELSE [map |-> "gridTexture", opacity |-> 80]

MaterialFor(v, o) ==
  IF v = "tile"
  THEN [map |-> IF o = "horizontal" THEN "floorTexture" ELSE "wallTexture",
        opacity |-> 70]
  ELSE [map |-> IF o = "horizontal" THEN "gridTexture" ELSE "null",
        opacity |-> IF o = "horizontal" THEN 80 ELSE 30]

\* 1. Initial Creation
NewPlaneMesh(v, plane) ==
  [geometry |-> EmptyGeometry, material |-> MaterialFor(v, plane.orientation),
   lastChangedTime |-> -1, matrix |-> IdentityMatrix, visible |-> TRUE]

\* mutant: the geometry is rebuilt in every frame
BoundedUpdate_always(plane, mesh) ==
  LET i == Install([mesh EXCEPT !.lastChangedTime = plane.lastChangedTime],
                   ShapeGeometry(plane.polygon))
  IN  [mesh |-> i.mesh, rebuilt |-> TRUE, old |-> i.old]

\* mutant: the boundary is built for a new entity and never again
BoundedUpdate_once(plane, mesh) ==
  IF mesh.lastChangedTime = -1
  THEN LET i == Install([mesh EXCEPT
                           !.lastChangedTime = plane.lastChangedTime],
                        ShapeGeometry(plane.polygon))
       IN  [mesh |-> i.mesh, rebuilt |-> TRUE, old |-> i.old]
  ELSE [mesh |-> mesh, rebuilt |-> FALSE, old |-> {}]

\* the bounded branch: rebuilt only when the stamp differs
BoundedUpdate(plane, mesh) ==
  IF plane.lastChangedTime # mesh.lastChangedTime
  THEN LET i == Install([mesh EXCEPT
                           !.lastChangedTime = plane.lastChangedTime],
                        ShapeGeometry(plane.polygon))
       IN  [mesh |-> i.mesh, rebuilt |-> TRUE, old |-> i.old]
  ELSE [mesh |-> mesh, rebuilt |-> FALSE, old |-> {}]

\* mutant: a floor's plane is built again whenever the stamp has moved
UpdateGeometry_onchange(v, plane, mesh) ==
  IF v = "tile" /\ plane.orientation = "horizontal"
  THEN IF plane.lastChangedTime # mesh.lastChangedTime
       THEN LET i == Install([mesh EXCEPT
                                !.lastChangedTime = plane.lastChangedTime],
                             InfiniteGeometry)
            IN  [mesh |-> i.mesh, rebuilt |-> TRUE, old |-> i.old]
       ELSE [mesh |-> mesh, rebuilt |-> FALSE, old |-> {}]
  ELSE BoundedUpdate(plane, mesh)

\* 2. Update Geometry: part_001 by orientation, part_003 always bounded
UpdateGeometry(v, plane, mesh) ==
  IF v = "tile" /\ plane.orientation = "horizontal"
  THEN IF ~HasPosition(mesh.geometry) \/ mesh.geometry.type # "PlaneGeometry"
       THEN LET i == Install(mesh, InfiniteGeometry)
            IN  [mesh |-> i.mesh, rebuilt |-> TRUE, old |-> i.old]
       ELSE [mesh |-> mesh, rebuilt |-> FALSE, old |-> {}]
  ELSE BoundedUpdate(plane, mesh)

\* mutant: the pose is written only together with a new geometry
UpdatePlane_onrebuild(v, plane, old, pose) ==
  LET r == UpdateGeometry(v, plane, old)
  IN  [mesh |-> IF r.rebuilt
                THEN [r.mesh EXCEPT !.matrix = pose, !.visible = TRUE]
                ELSE r.mesh,
       rebuilt |-> r.rebuilt, old |-> r.old]

\* one iteration of detectedPlanes.forEach, for a plane that has a pose
UpdatePlane(v, plane, old, pose) ==
  LET r == UpdateGeometry(v, plane, old)
  IN  [mesh |-> [r.mesh EXCEPT !.matrix = pose, !.visible = TRUE],
       rebuilt |-> r.rebuilt, old |-> r.old]

\* ---------------------------------------------------------------- reticle
\* mutant: the lowest-ranked result is used
TopResult_last(hits) == hits[Len(hits)]

TopResult(hits) == hits[1]

\* mutant: an empty result list leaves the reticle as it was
ReticleAfterHitTest_keep(r, hits) ==
  IF Len(hits) > 0
  THEN [visible |-> TRUE, matrix |-> TopResult(hits),
        color |-> ReticleColor(ClassifyPose(TopResult(hits)))]
  ELSE r

\* mutant: the reticle is shown only where a plane entity is tracked
ReticleAfterHitTest_onplane(r, hits) ==
  IF Len(hits) > 0 /\ DOMAIN planes # {}
  THEN [visible |-> TRUE, matrix |-> TopResult(hits),
        color |-> ReticleColor(ClassifyPose(TopResult(hits)))]
  ELSE [r EXCEPT !.visible = FALSE]

\* the body of if (a.hitTestSource) in handleHitTest
ReticleAfterHitTest(r, hits) ==
  IF Len(hits) > 0
  THEN [visible |-> TRUE, matrix |-> TopResult(hits),
        color |-> ReticleColor(ClassifyPose(TopResult(hits)))]
  ELSE [r EXCEPT !.visible = FALSE]

\* mutant: the hit test is made whether or not the source has arrived
ReticleAfterFrame_eager(src, r, hits) == ReticleAfterHitTest(r, hits)

\* if (a.hitTestSource) { ... }: without a source the reticle is not touched
ReticleAfterFrame(src, r, hits) ==
  IF src # 0 THEN ReticleAfterHitTest(r, hits) ELSE r

\* -------------------------------------------------------------- placement
MatrixPosition(m) == m.pos
RotationOf(m)     == m.upY

PlacedColor(m) == IF m = "Tile" THEN "0xff0000" ELSE "0x0000ff"

PlacedMesh(r, m) ==
  [position |-> MatrixPosition(r.matrix), quaternion |-> RotationOf(r.matrix),
   color |-> PlacedColor(m)]

\* mutant: the visibility of the reticle is not looked at
OnSelect_unguarded(r, m, its) == Append(its, PlacedMesh(r, m))

\* mutant: the new mesh takes the place of those placed before
OnSelect_replace(r, m, its) ==
  IF r.visible THEN << PlacedMesh(r, m) >> ELSE its

\* onSelect: one call of one listener
OnSelect(r, m, its) ==
  IF r.visible THEN Append(its, PlacedMesh(r, m)) ELSE its

\* controller.dispatchEvent: every registered listener is called
RECURSIVE Dispatch(_, _, _, _)
Dispatch(n, r, m, its) ==
  IF n = 0 THEN its ELSE Dispatch(n - 1, r, m, OnSelect(r, m, its))

\* EventDispatcher.addEventListener keeps one entry per function
AddListener(ls, f) == ls \cup {f}

\* a re-render makes a new onSelect: the least identity no listener holds
FreshClosure(ls) ==
  CHOOSE n \in 0..MaxSessions : n \notin ls /\ \A k \in 0..(n - 1) : k \in ls

\* ---------------------------------------------------------------- textures
Colors == {"#ffffff", "#cccccc", "#aaccff", "#000000"}

TileRepeat == 2       \* texture.repeat.set(2, 2)

\* createTileTexture(color1, color2, segments): the canvas, then the texture
CreateTileTexture(color1, color2, segments) ==
  [background |-> color1, lines |-> color2,
   wrapS |-> "RepeatWrapping", wrapT |-> "RepeatWrapping",
   repeat |-> << TileRepeat, TileRepeat >>]

\* ------------------------------------------------------------------- Init
\* the state after the mount effect: reticle hidden, no planes, no session
\* raw WebGL viewer before START AR: pc is the await at which startAR is
\* suspended ("idle": not running), sessions the number of the XRSession
\* object, ended whether it has ended, referenceSpace whether
\* session.referenceSpace is assigned, scheduled the frame callbacks pending
\* on the session, tick the parity of the frames delivered, viewerPose and
\* drawn what the latest frame had and drew
RawInit == [pc |-> "idle", sessions |-> 0, ended |-> FALSE,
            referenceSpace |-> FALSE, scheduled |-> 0, arActive |-> FALSE,
            tick |-> 0, viewerPose |-> FALSE, drawn |-> {}]

\* mock viewer after the first render: useState([]), no updater queued
MockInit == [now |-> 0, objects |-> << >>, queue |-> << >>]

Init ==
  /\ variant \in Variants
  /\ session = 0
  /\ sessionsStarted = 0
  /\ planeDetection = FALSE
  /\ loopAlive = FALSE
  /\ isARActive = FALSE
  /\ mode = "Tile"
  /\ modeRef = "Tile"
  /\ onSelectId = 0
  /\ selectListeners = {}
  /\ hitTestSourceRequested = FALSE
  /\ hitTestSource = 0
  /\ pendingSource = {}
  /\ requests = 0
  /\ reticle = [visible |-> FALSE, matrix |-> IdentityMatrix, color |-> "0xffffff"]
  /\ planes = << >>
  /\ scenePlanes = {}
  /\ items = << >>
  /\ world = [p \in PlaneIds |-> Unseen]
  /\ lastReported = {}
  /\ textures = [floor |-> CreateTileTexture("#ffffff", "#cccccc", 4),
                 wall  |-> CreateTileTexture("#ffffff", "#aaccff", 2)]
  /\ dReticle = [position |-> <<0, 0, 0>>, quaternion |-> 0]
  /\ dIsFloor = TRUE
  /\ dItems = << >>
  /\ dRendered = [items |-> << >>, isFloor |-> TRUE]
  /\ raw = RawInit
  /\ mock = MockInit
  /\ last = Ran("init")

\* ------------------------------------------------------- React and the UI
\* setMode was called with a new value and the render is still to come
Dirty == mode # modeRef

\* onClick of the two mode buttons
SetMode(m) ==
  /\ m # mode
  /\ mode' = m
  /\ last' = Ran("setMode")
  /\ UNCHANGED << otherVars, textures, declVars, variant, session, sessionsStarted, planeDetection, loopAlive,
                  isARActive, modeRef, onSelectId, selectListeners,
                  hitVars, reticle, planeVars, items, world, lastReported >>

\* the component function runs again: new closures, then the modeRef effect
Render ==
  /\ Dirty
  /\ modeRef' = mode
  /\ onSelectId' = FreshClosure(selectListeners)
  /\ last' = Ran("render")
  /\ UNCHANGED << otherVars, textures, declVars, variant, session, sessionsStarted, planeDetection, loopAlive,
                  isARActive, mode, selectListeners, hitVars, reticle,
                  planeVars, items, world, lastReported >>

\* ---------------------------------------------------------------- startAR
\* the part of startAR after requestSession resolved; setStatus and
\* setIsARActive re-render the component, which makes a new onSelect
StartAR(granted) ==
  /\ ~isARActive
  /\ session = 0
  /\ sessionsStarted < MaxSessions
  /\ session' = sessionsStarted + 1
  /\ sessionsStarted' = sessionsStarted + 1
  /\ planeDetection' = granted
  /\ loopAlive' = TRUE
  /\ isARActive' = TRUE
  /\ selectListeners' = AddListener(selectListeners, onSelectId)
  /\ onSelectId' = FreshClosure(selectListeners')
  /\ last' = Ran("startAR")
  /\ UNCHANGED << otherVars, textures, declVars, variant, mode, modeRef, hitVars, reticle, planeVars, items,
                  world, lastReported >>

\* mutant: the reticle is left as it was
ReticleAfterEnd_keep(r) == r

ReticleAfterEnd(r) == [r EXCEPT !.visible = FALSE]

\* mutant: the plane map is not cleared
PlanesAfterEnd_keep(ps) == ps

\* a.planes.clear()
PlanesAfterEnd(ps) == << >>

\* mutant: the meshes stay in the scene
SceneAfterEnd_keep(sc, ps) == sc

\* a.planes.forEach(mesh => a.scene.remove(mesh))
SceneAfterEnd(sc, ps) == sc \ DOMAIN ps

\* the geometries of the entities the end handler lets go of: scene.remove
\* and Map.clear leave them as they are
DroppedAtEnd(ps) == {ps[p].geometry : p \in DOMAIN ps}

\* the session's "end" event: the listener of startAR, then that of handleHitTest
SessionEnd ==
  /\ session # 0
  /\ session' = 0
  /\ loopAlive' = FALSE
  /\ isARActive' = FALSE
  /\ hitTestSourceRequested' = FALSE
  /\ hitTestSource' = 0
  /\ requests' = 0
  /\ reticle' = ReticleAfterEnd(reticle)
  /\ scenePlanes' = SceneAfterEnd(scenePlanes, planes)
  /\ planes' = PlanesAfterEnd(planes)
  /\ world' = [p \in PlaneIds |-> Unseen]
  /\ lastReported' = {}
  /\ last' = [Ran("end") EXCEPT !.before = Cardinality(DOMAIN planes),
                                !.replaced = DroppedAtEnd(planes),
                                !.visibleBefore = reticle.visible]
  /\ onSelectId' = FreshClosure(selectListeners)
  /\ UNCHANGED << otherVars, textures, declVars, variant, sessionsStarted, planeDetection, mode, modeRef,
                  selectListeners, pendingSource, items >>

\* ------------------------------------------------- hit-test source promise
\* session.requestHitTestSource(...).then(source => a.hitTestSource = source)
ResolveSource(s) ==
  /\ s \in pendingSource
  /\ pendingSource' = pendingSource \ {s}
  /\ hitTestSource' = s
  /\ last' = Ran("resolve")
  /\ UNCHANGED << otherVars, textures, declVars, variant, session, sessionsStarted, planeDetection, loopAlive,
                  reactVars, selectListeners, hitTestSourceRequested, requests,
                  reticle, planeVars, items, world, lastReported >>

\* the promise of a session that has ended may be rejected instead
RejectSource(s) ==
  /\ s \in pendingSource
  /\ s # session
  /\ pendingSource' = pendingSource \ {s}
  /\ last' = Ran("reject")
  /\ UNCHANGED << otherVars, textures, declVars, variant, session, sessionsStarted, planeDetection, loopAlive,
                  reactVars, selectListeners, hitTestSourceRequested, requests,
                  hitTestSource, reticle, planeVars, items, world, lastReported >>

\* ------------------------------------------------------------------ frame
HitResults == {<< >>} \cup {<<h>> : h \in HitPoses}
              \cup {<<h, g>> : h \in HitPoses, g \in HitPoses}

\* frame.getPose(plane.planeSpace, referenceSpace) for every reported plane
PlanePoseMaps == [DetectedPlanes -> PlanePoses \cup {NoPose}]

\* mutant: the body of the forEach runs without a pose too
Posed_all(poseOf) == DOMAIN poseOf

\* the planes of this frame's forEach that have a pose
Posed(poseOf) == {p \in DOMAIN poseOf : poseOf[p] # NoPose}

OldMesh(p) == IF p \in DOMAIN planes THEN planes[p]
              ELSE NewPlaneMesh(variant, world[p])

\* a.planes after updatePlanes
PlanesAfterUpdate(poseOf) ==
  [p \in (DOMAIN planes) \cup Posed(poseOf) |->
     IF p \in Posed(poseOf)
     THEN UpdatePlane(variant, world[p], OldMesh(p), poseOf[p]).mesh
     ELSE planes[p]]

Rebuilt(poseOf) ==
  {p \in Posed(poseOf) :
     UpdatePlane(variant, world[p], OldMesh(p), poseOf[p]).rebuilt}

\* the geometries that the frame replaced, as the frame left them
Replaced(poseOf) ==
  UNION {UpdatePlane(variant, world[p], OldMesh(p), poseOf[p]).old :
           p \in Posed(poseOf)}

\* updatePlanes(frame, a); a.scene.add(planeMesh) is part of the creation
UpdatePlanes(poseOf) ==
  /\ planes' = PlanesAfterUpdate(poseOf)
  /\ scenePlanes' = scenePlanes \cup (Posed(poseOf) \ DOMAIN planes)

\* the source held by a.hitTestSource belongs to a session that has ended
StaleSource == hitTestSource # 0 /\ hitTestSource # session

\* mutant: the source is requested by every frame
RequestSource_always ==
  /\ hitTestSourceRequested' = TRUE
  /\ pendingSource' = pendingSource \cup {session}
  /\ requests' = IF requests < MaxRequests THEN requests + 1 ELSE requests

\* the first half of handleHitTest: the source is requested once
RequestSource ==
  /\ hitTestSourceRequested' = TRUE
  /\ pendingSource' = IF hitTestSourceRequested THEN pendingSource
                      ELSE pendingSource \cup {session}
  /\ requests' = IF hitTestSourceRequested \/ requests >= MaxRequests
                 THEN requests ELSE requests + 1

\* the animation loop's callback with an XR frame: handleHitTest, updatePlanes
Frame(hits, poseOf) ==
  /\ session # 0
  /\ loopAlive
  /\ ~StaleSource
  /\ RequestSource
  /\ reticle' = ReticleAfterFrame(hitTestSource, reticle, hits)
  /\ UpdatePlanes(poseOf)
  /\ lastReported' = DetectedPlanes
  /\ last' = [Ran("frame") EXCEPT
                !.tested = (hitTestSource # 0),
                !.nresults = IF hitTestSource # 0 THEN Len(hits) ELSE 0,
                !.top = IF hitTestSource # 0 /\ Len(hits) > 0 THEN hits[1]
                        ELSE NoHit,
                !.threw = ForEachThrows(DetectedPlanesAbsent),
                !.posed = Posed(poseOf),
                !.rebuilt = Rebuilt(poseOf),
                !.replaced = Replaced(poseOf),
                !.poses = poseOf,
                !.visibleBefore = reticle.visible]
  /\ UNCHANGED << otherVars, textures, declVars, variant, session, sessionsStarted, planeDetection, loopAlive,
                  reactVars, selectListeners, hitTestSource, items, world >>

\* frame.getHitTestResults throws for a source of an ended session: the
\* callback ends there, and whether the loop requests another frame depends
\* on the order in which the renderer calls the callback and requests it
FrameThrows(again) ==
  /\ session # 0
  /\ loopAlive
  /\ StaleSource
  /\ RequestSource
  /\ loopAlive' = again
  /\ last' = [Ran("frame") EXCEPT !.threw = TRUE,
                                  !.visibleBefore = reticle.visible]
  /\ UNCHANGED << otherVars, textures, declVars, variant, session, sessionsStarted, planeDetection, reactVars,
                  selectListeners, hitTestSource, reticle, planeVars, items,
                  world, lastReported >>

\* mutant: handleHitTest and updatePlanes are called without a frame
RunsFrameBody_always(frame) == TRUE

\* if (frame) { handleHitTest(a, frame); updatePlanes(frame, a); }
RunsFrameBody(frame) == frame

\* the animation loop's callback outside a session, where the renderer
\* passes no XR frame: only renderer.render runs. handleHitTest without a
\* session would throw at session.requestReferenceSpace.
NoFrame ==
  /\ sessionsStarted > 0
  /\ session = 0
  /\ last' = [Ran("noframe") EXCEPT !.threw = RunsFrameBody(FALSE),
                                    !.visibleBefore = reticle.visible]
  /\ UNCHANGED << otherVars, textures, declVars, imperativeVars >>

\* ----------------------------------------------------------------- select
\* the controller's "select" event
Select ==
  /\ session # 0
  /\ Len(Dispatch(Cardinality(selectListeners), reticle, modeRef, items))
       <= MaxItems
  /\ items' = Dispatch(Cardinality(selectListeners), reticle, modeRef, items)
  /\ last' = [Ran("select") EXCEPT !.added = Len(items') - Len(items),
                                   !.before = Len(items),
                                   !.visibleBefore = reticle.visible]
  /\ UNCHANGED << otherVars, textures, declVars, variant, session, sessionsStarted, planeDetection, loopAlive,
                  reactVars, selectListeners, hitVars, reticle, planeVars,
                  world, lastReported >>

\* ------------------------------------------------------ sensing subsystem
\* a plane is first reported, with the unit square as its boundary
PlaneAppears(p, o) ==
  /\ session # 0
  /\ planeDetection
  /\ world[p].status = "unseen"
  /\ world' = [world EXCEPT ![p] = [status |-> "live", orientation |-> o,
                                    polygon |-> Square, lastChangedTime |-> 0]]
  /\ last' = Ran("world")
  /\ UNCHANGED << otherVars, textures, declVars, variant, session, sessionsStarted, planeDetection, loopAlive,
                  reactVars, selectListeners, hitVars, reticle, planeVars,
                  items, lastReported >>

\* the boundary changes, and with it the change-stamp
PlaneChanges(p, poly) ==
  /\ world[p].status = "live"
  /\ world[p].lastChangedTime < MaxStamp
  /\ poly # world[p].polygon
  /\ world' = [world EXCEPT ![p].polygon = poly,
                            ![p].lastChangedTime = @ + 1]
  /\ last' = Ran("world")
  /\ UNCHANGED << otherVars, textures, declVars, variant, session, sessionsStarted, planeDetection, loopAlive,
                  reactVars, selectListeners, hitVars, reticle, planeVars,
                  items, lastReported >>

\* the plane is no longer tracked: it leaves detectedPlanes for good
PlaneVanishes(p) ==
  /\ world[p].status = "live"
  /\ world' = [world EXCEPT ![p] = Gone]
  /\ last' = Ran("world")
  /\ UNCHANGED << otherVars, textures, declVars, variant, session, sessionsStarted, planeDetection, loopAlive,
                  reactVars, selectListeners, hitVars, reticle, planeVars,
                  items, lastReported >>

\* ------------------------------------------------- the declarative viewer
\* src/src/App.jsx, lines 268-397: Reticle, placeItem, items

\* where the selection ray meets the ring of the reticle (radii 0.1 to 0.25),
\* as offsets from the centre of the ring
RingOffsets == {<<1, 0, 0>>, <<0, 0, -2>>}

Plus(a, b) == <<a[1] + b[1], a[2] + b[2], a[3] + b[3]>>

\* the useHitTest callback of Reticle
DHitTest(h) ==
  /\ dReticle' = [position |-> MatrixPosition(h), quaternion |-> RotationOf(h)]
  /\ dIsFloor' = (ClassifyPose(h) = "horizontal")
  /\ last' = Ran("useHitTest")
  /\ UNCHANGED << otherVars, textures, imperativeVars, dItems, dRendered >>

\* what placeItem makes of the event
PlacedItem(r, off, floor) ==
  [position |-> Plus(r.position, off), orientation |-> r.quaternion,
   type |-> IF floor THEN "Floor" ELSE "Wall"]

\* placeItem(e): items and isFloor are the values of the render that made it
PlaceItem(off) ==
  /\ Len(dRendered.items) < MaxItems
  /\ dItems' = Append(dRendered.items,
                      PlacedItem(dReticle, off, dRendered.isFloor))
  /\ last' = [Ran("placeItem") EXCEPT !.before = Len(dItems)]
  /\ UNCHANGED << otherVars, textures, imperativeVars, dReticle, dIsFloor, dRendered >>

\* App runs again with the current state
DRender ==
  /\ dRendered # [items |-> dItems, isFloor |-> dIsFloor]
  /\ dRendered' = [items |-> dItems, isFloor |-> dIsFloor]
  /\ last' = Ran("render")
  /\ UNCHANGED << otherVars, textures, imperativeVars, dReticle, dIsFloor, dItems >>

NextDeclarative ==
  \/ \E h \in HitPoses : DHitTest(h)
  \/ \E off \in RingOffsets : PlaceItem(off)
  \/ DRender

SpecDeclarative == Init /\ [][NextDeclarative]_vars

\* ------------------------------------------------- the texture synthesizer
\* a call of createTileTexture whose result becomes the floor or wall texture
SynthesizeTexture(slot, color1, color2, segments) ==
  /\ textures' = [textures EXCEPT
                    ![slot] = CreateTileTexture(color1, color2, segments)]
  /\ last' = [Ran("createTileTexture") EXCEPT
                !.args = << slot, color1, color2, segments >>]
  /\ UNCHANGED << imperativeVars, declVars, otherVars >>

NextTexture ==
  \E slot \in {"floor", "wall"}, color1 \in Colors, color2 \in Colors,
     segments \in 1..MaxSegments :
       SynthesizeTexture(slot, color1, color2, segments)

SpecTexture == Init /\ [][NextTexture]_vars

\* --------------------------------------------------- the raw WebGL viewer
\* src/src/App.jsx, lines 1-267: startAR, onXRFrame, drawPlane

\* onClick of the START AR button, up to the first await that follows
\* requestSession
StartARRaw ==
  /\ raw.pc = "idle"
  /\ ~raw.arActive
  /\ raw.sessions < MaxSessions
  /\ raw.sessions > 0 => raw.ended
  /\ raw' = [raw EXCEPT !.pc = "compatible", !.sessions = @ + 1,
                        !.ended = FALSE, !.referenceSpace = FALSE,
                        !.scheduled = 0]
  /\ last' = Ran("startAR")
  /\ UNCHANGED << imperativeVars, declVars, textures, mock >>

\* the awaits of startAR in order: makeXRCompatible, updateRenderState,
\* requestReferenceSpace
AfterAwait(pc) == CASE pc = "compatible" -> "layer"
                    [] pc = "layer" -> "space"
                    [] OTHER -> "idle"

\* mutant: the first frame is requested before requestReferenceSpace
RequestsFirstFrame_early(pc) == pc = "layer"

\* session.requestAnimationFrame(onXRFrame) is in the continuation of
\* await session.requestReferenceSpace('local'), after the assignment
RequestsFirstFrame(pc) == pc = "space"

\* startAR resumes after an await. resolved: the awaited call succeeded; on
\* an ended session it fails and the catch block ends startAR, unless the
\* promise had been fulfilled before the end. requestAnimationFrame on an
\* ended session schedules nothing.
ResumeStartAR(resolved) ==
  /\ raw.pc # "idle"
  /\ ~raw.ended => resolved
  /\ (raw.ended /\ resolved) => raw.pc = "space"
  /\ raw' = IF ~resolved THEN [raw EXCEPT !.pc = "idle"]
            ELSE [raw EXCEPT
                    !.pc = AfterAwait(raw.pc),
                    !.referenceSpace = @ \/ raw.pc = "space",
                    !.scheduled = IF RequestsFirstFrame(raw.pc) /\ ~raw.ended
                                  THEN @ + 1 ELSE @,
                    !.arActive = @ \/ raw.pc = "space"]
  /\ last' = [Ran("resume") EXCEPT !.threw = ~resolved]
  /\ UNCHANGED << imperativeVars, declVars, textures, mock >>

\* mutant: the next frame is requested after the pose check
Rescheduled_afterpose(pose) == IF pose THEN 1 ELSE 0

\* session.requestAnimationFrame(onXRFrame) is the second statement of
\* onXRFrame: the callbacks it has requested when it returns, whether or not
\* the frame has a viewer pose
Rescheduled(pose) == 1

\* onXRFrame(time, frame). pose: getViewerPose gave a pose; withPose: the
\* detected planes for which drawPlane gets a pose. getViewerPose throws
\* when session.referenceSpace is undefined.
OnXRFrame(pose, withPose) ==
  /\ raw.sessions > 0
  /\ ~raw.ended
  /\ raw.scheduled > 0
  /\ raw' = [raw EXCEPT
               !.scheduled = (@ - 1) + Rescheduled(pose /\ raw.referenceSpace),
               !.tick = 1 - @,
               !.viewerPose = pose /\ raw.referenceSpace,
               !.drawn = IF pose /\ raw.referenceSpace THEN withPose ELSE {}]
  /\ last' = [Ran("onXRFrame") EXCEPT !.threw = ~raw.referenceSpace,
                                      !.posed = withPose]
  /\ UNCHANGED << imperativeVars, declVars, textures, mock >>

\* the session ends (stopAR or the system): its pending frame callbacks are
\* dropped; the 'end' listener exists once startAR has run to its end
EndRaw ==
  /\ raw.sessions > 0
  /\ ~raw.ended
  /\ raw' = [raw EXCEPT !.ended = TRUE, !.scheduled = 0,
                        !.arActive = IF raw.pc = "idle" THEN FALSE ELSE @]
  /\ last' = Ran("end")
  /\ UNCHANGED << imperativeVars, declVars, textures, mock >>

DeliverFrame == \E pose \in BOOLEAN, withPose \in SUBSET PlaneIds :
                  OnXRFrame(pose, withPose)

NextRaw ==
  \/ StartARRaw
  \/ \E resolved \in BOOLEAN : ResumeStartAR(resolved)
  \/ DeliverFrame
  \/ EndRaw

\* the XR device delivers a frame to a session that has a callback pending
SpecRaw == Init /\ [][NextRaw]_vars /\ WF_vars(DeliverFrame)

\* ------------------------------------------------------- the mock viewer
\* src/unnamed/part_000, ARScene: objects, placeObject

\* where the tap met the reticle, and the fallback of placeObject
TapPoints == {<<1, 0, 0>>}
Origin == <<0, 0, 0>>

\* const point = e.intersection ? e.intersection.point : new Vector3(0, 0, 0)
PointOf(e) == IF e.intersection THEN e.point ELSE Origin

TapEvents == {[intersection |-> TRUE, point |-> p] : p \in TapPoints}
               \cup {[intersection |-> FALSE, point |-> Origin]}

\* placeObject(e): setObjects is given an updater, which React queues
PlaceObject(e) ==
  /\ Len(mock.objects) + Len(mock.queue) < MaxItems
  /\ mock' = [mock EXCEPT !.queue = Append(@, PointOf(e))]
  /\ last' = Ran("placeObject")
  /\ UNCHANGED << imperativeVars, declVars, textures, raw >>

\* (prev) => [...prev, {id: Date.now(), position: point}], for each queued
\* updater in order; the clock advances by gap between two of them
RunUpdaters(prev, queue, now, gap) ==
  prev \o [i \in 1..Len(queue) |->
            [id |-> now + gap * (i - 1), position |-> queue[i]]]

\* ARScene renders: React runs the queued updaters one after the other
MockRender(gap) ==
  /\ Len(mock.queue) > 0
  /\ mock.now + gap * (Len(mock.queue) - 1) <= MaxClock
  /\ mock' = [now |-> mock.now + gap * (Len(mock.queue) - 1),
              objects |-> RunUpdaters(mock.objects, mock.queue, mock.now, gap),
              queue |-> << >>]
  /\ last' = [Ran("render") EXCEPT !.before = Len(mock.objects),
                                   !.added = Len(mock.queue)]
  /\ UNCHANGED << imperativeVars, declVars, textures, raw >>

\* a millisecond passes
ClockTick ==
  /\ mock.now < MaxClock
  /\ mock' = [mock EXCEPT !.now = @ + 1]
  /\ last' = Ran("clock")
  /\ UNCHANGED << imperativeVars, declVars, textures, raw >>

NextMock ==
  \/ \E e \in TapEvents : PlaceObject(e)
  \/ \E gap \in 0..1 : MockRender(gap)
  \/ ClockTick

SpecMock == Init /\ [][NextMock]_vars

\* ------------------------------------------------------------------- Next
\* hit-test results of the runs that follow the planes
TrackingHits == {<< >>, <<FloorHit>>}

Lifecycle ==
  \/ \E granted \in BOOLEAN : StartAR(granted)
  \/ SessionEnd
  \/ \E s \in 1..MaxSessions : s = session /\ ResolveSource(s)

\* the source promise of a session settles after the session has ended
LateSource ==
  \/ \E s \in 1..MaxSessions : s # session /\ ResolveSource(s)
  \/ \E s \in 1..MaxSessions : RejectSource(s)
  \/ \E again \in BOOLEAN : FrameThrows(again)

Sensing ==
  \/ \E p \in PlaneIds, o \in Orientations : PlaneAppears(p, o)
  \/ \E p \in PlaneIds, poly \in Polygons : PlaneChanges(p, poly)
  \/ \E p \in PlaneIds : PlaneVanishes(p)

User ==
  \/ \E m \in Modes : SetMode(m)
  \/ Render
  \/ Select

Next ==
  \/ Lifecycle
  \/ LateSource
  \/ Sensing
  \/ User
  \/ NoFrame
  \/ \E hits \in HitResults, poseOf \in PlanePoseMaps : Frame(hits, poseOf)

Spec == Init /\ [][Next]_vars

\* the viewer while the sensing subsystem reports planes, nothing is placed
\* and every hit-test source is delivered to the session that asked for it
NextTracking ==
  \/ Lifecycle
  \/ Sensing
  \/ \E hits \in TrackingHits, poseOf \in PlanePoseMaps : Frame(hits, poseOf)

SpecTracking == Init /\ [][NextTracking]_vars

\* the viewer while the user places objects and no plane is reported
NextPlacement ==
  \/ Lifecycle
  \/ LateSource
  \/ User
  \/ NoFrame
  \/ \E hits \in HitResults : Frame(hits, << >>)

SpecPlacement == Init /\ [][NextPlacement]_vars

\* the viewer under hit-test poses of every inclination, nothing else going on
ClassifyPoses == {Pose(<<0, 0, 0>>, u) : u \in -100..100}

NextClassify ==
  \/ Lifecycle
  \/ \E h \in ClassifyPoses : Frame(<<h>>, << >>)
  \/ Frame(<< >>, << >>)

SpecClassify == Init /\ [][NextClassify]_vars

\* one plane whose boundary may also degenerate to two points
BoundaryPolygons == Polygons \cup {Segment}

NextBoundary ==
  \/ Lifecycle
  \/ \E o \in Orientations : PlaneAppears("A", o)
  \/ \E poly \in BoundaryPolygons : PlaneChanges("A", poly)
  \/ PlaneVanishes("A")
  \/ \E poseOf \in PlanePoseMaps : Frame(<< >>, poseOf)

SpecBoundary == Init /\ [][NextBoundary]_vars

\* ================================================================ claims

Tracked == DOMAIN planes

\* the world-space vertical coordinate of an entity's pose
HeightOf(mesh) == MatrixPosition(mesh.matrix)[2]

Infinite == {p \in Tracked : IsInfinite(planes[p])}

TrackedHorizontal ==
  {p \in Tracked \cap Live : world[p].orientation = "horizontal"}

\* C1: after every frame advance at most one plane entity is in infinite
\* mode, and if one is, it is the tracked horizontal plane with the least
\* vertical coordinate.
C1_AtMostOneInfiniteAndLowest ==
  (last.op = "frame" /\ ~last.threw) =>
    /\ Cardinality(Infinite) <= 1
    /\ \A p \in Infinite :
         \A q \in TrackedHorizontal : HeightOf(planes[p]) <= HeightOf(planes[q])

\* C2: a plane reported in one frame and not in the next of the same session
\* has, after that next frame, no entity in the plane map and no mesh in the
\* scene.
C2_RemovedWhenNoLongerReported ==
  [][(last'.op = "frame" /\ ~last'.threw) =>
       \A p \in lastReported \ DetectedPlanes :
         p \notin DOMAIN planes' /\ p \notin scenePlanes']_vars

\* C3: once the session's end event has been handled, and until the first
\* frame of the next session has run, the plane map is empty, no plane mesh
\* is in the scene and the reticle is invisible.
C3_TeardownOnSessionEnd ==
  (session = 0 \/ ~hitTestSourceRequested) =>
    /\ Tracked = {}
    /\ scenePlanes = {}
    /\ ~reticle.visible

\* the end event was handled with two planes tracked and the reticle visible
C3_Witness ==
  /\ last.op = "end"
  /\ last.before = 2
  /\ last.visibleBefore
  /\ Tracked = {}

\* C4: a selection event delivered while the reticle is visible creates
\* exactly one placed object, in the first session and in every later one.
C4_OneObjectPerSelection ==
  (last.op = "select" /\ last.visibleBefore) => last.added = 1

\* C5: the position and orientation recorded for a placed object are those
\* of the reticle at the selection event that created it (placeItem).
C5_PlacedAtReticlePose ==
  (last.op = "placeItem" /\ Len(dItems) > 0) =>
    /\ dItems[Len(dItems)].position = dReticle.position
    /\ dItems[Len(dItems)].orientation = dReticle.quaternion

\* C6: a selection event that arrives while the reticle is invisible creates
\* no placed object and leaves the plane map, the scene and the reticle as
\* they were, without an exception.
C6_SelectWhileInvisibleIsNoOp ==
  [][(last'.op = "select" /\ ~reticle.visible) =>
       /\ items' = items
       /\ planes' = planes
       /\ scenePlanes' = scenePlanes
       /\ reticle' = reticle
       /\ ~last'.threw]_vars

\* a selection was dispatched to a registered listener with the reticle hidden
C6_Witness ==
  /\ last.op = "select"
  /\ ~last.visibleBefore
  /\ selectListeners # {}
  /\ last.added = 0

\* C7: after a frame advance in which the hit-test source was not yet there
\* or gave an empty result list, the reticle is invisible.
C7_NoResultReticleInvisible ==
  (last.op = "frame" /\ ~last.threw /\ last.nresults = 0) => ~reticle.visible

\* an empty result list hid a reticle that was visible
C7_Witness ==
  /\ last.op = "frame"
  /\ last.tested
  /\ last.nresults = 0
  /\ last.visibleBefore
  /\ ~reticle.visible

\* C8: after a frame advance in which a hit-test result exists, the reticle is
\* visible, its pose is that of the first result and its colour is the one of
\* that pose's classification.
C8_ReticleFollowsTopResult ==
  (last.op = "frame" /\ last.nresults > 0) =>
    /\ reticle.visible
    /\ reticle.matrix = last.top
    /\ reticle.color = IF ClassifyPose(last.top) = "horizontal"
                       THEN "0x00ff00" ELSE "0x00ffff"

\* two results were given, the tilted one first, and the reticle took it
C8_Witness ==
  /\ last.op = "frame"
  /\ last.nresults = 2
  /\ last.top = TiltedHit
  /\ reticle.matrix = TiltedHit
  /\ reticle.color = "0x00ffff"

C10_RebuildOnlyOnStampChange ==
  [][(last'.op = "frame" /\ ~last'.threw) =>
       \A p \in Tracked \cap Live :
         ~IsInfinite(planes[p]) =>
           /\ p \in last'.rebuilt =>
                planes[p].lastChangedTime # world[p].lastChangedTime
           /\ planes[p].lastChangedTime = world[p].lastChangedTime =>
                /\ p \notin last'.rebuilt
                /\ planes'[p].geometry = planes[p].geometry
                /\ planes'[p].lastChangedTime = planes[p].lastChangedTime]_vars

\* a frame gave a pose to a bounded entity whose stamp had been applied by an
\* earlier frame, after a change of the boundary, and did not rebuild it
C10_Witness ==
  /\ last.op = "frame"
  /\ \E p \in last.posed :
       /\ p \notin last.rebuilt
       /\ planes[p].geometry = ShapeGeometry(Triangle)
       /\ planes[p].lastChangedTime = 1
       /\ world[p].lastChangedTime = 1


\* the horizontal planes that had a pose in the frame that ran last
PosedHorizontal(l) ==
  {p \in l.posed : world[p].orientation = "horizontal"}

\* C11: when a lower horizontal plane is reported in a frame, the plane that
\* was infinite until then returns in that frame to bounded mode, its
\* geometry rebuilt from its current polygon whatever its change-stamp, and
\* the lower plane becomes the infinite one.
C11_InfiniteHandedToLowerPlane ==
  [][(last'.op = "frame" /\ ~last'.threw) =>
       \A p \in Infinite \cap PosedHorizontal(last') :
         \A q \in PosedHorizontal(last') :
           ( /\ HeightOf(planes'[q]) < HeightOf(planes'[p])
             /\ \A r \in PosedHorizontal(last') :
                  HeightOf(planes'[q]) <= HeightOf(planes'[r]) )
           => /\ ~IsInfinite(planes'[p])
              /\ planes'[p].geometry = ShapeGeometry(world[p].polygon)
              /\ IsInfinite(planes'[q])]_vars


\* the reported planes for which getPose gave nothing in the frame that ran last
Unposed(l) == {p \in DOMAIN l.poses : l.poses[p] = NoPose}

\* C12: a frame in which a reported plane has no pose leaves that plane's
\* entity as it was (mesh, last-applied stamp, pose, membership in the map and
\* in the scene), raises no error and still processes the planes that have a
\* pose: each of these is in the map and the scene, at its pose, visible, and
\* holds its pending boundary unless it is infinite.
C12_MissingPoseSkipsOnlyThatPlane ==
  [][(last'.op = "frame") =>
       /\ ~last'.threw
       /\ \A p \in Unposed(last') :
            /\ (p \in scenePlanes') <=> (p \in scenePlanes)
            /\ (p \in DOMAIN planes') <=> (p \in Tracked)
            /\ p \in Tracked => planes'[p] = planes[p]
       /\ \A p \in DOMAIN last'.poses \ Unposed(last') :
            /\ p \in DOMAIN planes' /\ p \in scenePlanes'
            /\ planes'[p].matrix = last'.poses[p]
            /\ planes'[p].visible
            /\ \/ IsInfinite(planes'[p])
               \/ /\ planes'[p].geometry = ShapeGeometry(world[p].polygon)
                  /\ planes'[p].lastChangedTime = world[p].lastChangedTime]_vars

\* a frame gave no pose to a tracked plane whose boundary had changed, and a
\* pose to the other plane: the first still holds its old boundary and stamp
C12_Witness ==
  /\ last.op = "frame"
  /\ \E p \in Unposed(last) \cap Tracked :
       /\ planes[p].lastChangedTime = 0
       /\ planes[p].geometry = ShapeGeometry(Square)
       /\ world[p].lastChangedTime = 1
       /\ \E q \in last.posed : q # p /\ planes[q].matrix = last.poses[q]


\* C13: after every frame advance, every plane entity whose plane was given
\* a pose in that frame has that pose as its world pose, whether or not its
\* geometry was regenerated in the frame.
C13_PoseAppliedEveryFrame ==
  (last.op = "frame" /\ ~last.threw) =>
    \A p \in DOMAIN last.poses \ Unposed(last) :
      p \in Tracked /\ planes[p].matrix = last.poses[p]

\* one plane was rebuilt in the frame and the other was not, and both are at
\* the poses of the frame, which differ
C13_Witness ==
  /\ last.op = "frame"
  /\ \E p \in last.posed \ last.rebuilt :
       \E q \in last.rebuilt :
         /\ planes[p].matrix = last.poses[p]
         /\ planes[q].matrix = last.poses[q]
         /\ last.poses[p] # last.poses[q]


\* C14: when the change-stamp of a bounded plane changes but its boundary
\* polygon has fewer than 3 points, the frame keeps the entity's previous
\* geometry and ends without error.
C14_DegeneratePolygonRejected ==
  [][(last'.op = "frame") =>
       \A p \in last'.posed \cap Tracked :
         ( /\ planes[p].geometry.type = "ShapeGeometry"
           /\ world[p].lastChangedTime # planes[p].lastChangedTime
           /\ Len(world[p].polygon) < 3 )
         => /\ planes'[p].geometry = planes[p].geometry
            /\ ~last'.threw]_vars


\* C15: a frame that runs while the hit-test source has been requested and
\* has not arrived makes no hit test, raises no error, leaves the reticle's
\* visibility, pose and colour as they were, and still runs the plane update.
C15_SourceNotReadySkipsHitTest ==
  [][(last'.op = "frame" /\ hitTestSourceRequested /\ hitTestSource = 0) =>
       /\ ~last'.tested
       /\ ~last'.threw
       /\ reticle' = reticle
       /\ \A p \in DOMAIN last'.poses \ Unposed(last') :
            p \in DOMAIN planes' /\ planes'[p].matrix = last'.poses[p]]_vars

\* a frame made no hit test, the source being still awaited, and updated a
\* plane that an earlier frame of the session had built
C15_Witness ==
  /\ last.op = "frame"
  /\ ~last.tested
  /\ hitTestSourceRequested
  /\ hitTestSource = 0
  /\ session \in pendingSource
  /\ \E p \in last.posed \ last.rebuilt : planes[p].matrix = last.poses[p]


\* C16: a frame whose detectedPlanes is absent and a frame whose
\* detectedPlanes is present and empty have the same result, the plane map
\* and the scene as they were before the frame, and neither raises an error.
C16_AbsentPlanesAsEmpty ==
  [][(last'.op = "frame" /\ (DetectedPlanesAbsent \/ DetectedPlanes = {})) =>
       /\ planes' = planes
       /\ scenePlanes' = scenePlanes
       /\ ~last'.threw]_vars

\* a frame without detectedPlanes ran in a session that followed another one
C16_Witness ==
  /\ last.op = "frame"
  /\ DetectedPlanesAbsent
  /\ session = 2
  /\ ~last.threw
  /\ Tracked = {}


\* C17: the kind of a placed object is the mode most recently given to the
\* mode setter before the selection event that created it, whatever the
\* order of mode changes, re-renders and selection events, and no later step
\* changes the kind of an object that exists.
C17_KindIsModeLastSet ==
  [][/\ (last'.op = "select") =>
          \A i \in (Len(items) + 1)..Len(items') :
            items'[i].color = IF mode = "Tile" THEN "0xff0000" ELSE "0x0000ff"
     /\ \A i \in 1..Len(items) :
          i <= Len(items') /\ items'[i].color = items[i].color]_vars


\* C18: placed objects are created by selection events only, and no step
\* (frame, mode change, re-render, later selection, session start or end)
\* changes the pose or the kind of a placed object or takes it away: the
\* placed objects before a step are the first ones after it.
C18_PlacedObjectsOnlyGrow ==
  [][/\ Len(items') >= Len(items)
     /\ \A i \in 1..Len(items) : items'[i] = items[i]
     /\ (Len(items') > Len(items)) => last'.op = "select"]_vars

\* a session ended with two objects placed by two selections in different
\* modes, and both are still there
C18_Witness ==
  /\ last.op = "end"
  /\ Len(items) = 2
  /\ items[1].color # items[2].color


\* the materials of the two roles: floor texture (part_001) or grid texture
\* (part_003) for a floor, wall texture or no texture and a fainter opacity
\* for a wall
FloorMaterials == {[map |-> "floorTexture", opacity |-> 70],
                   [map |-> "gridTexture", opacity |-> 80]}
WallMaterials  == {[map |-> "wallTexture", opacity |-> 70],
                   [map |-> "null", opacity |-> 30]}

\* C19: in every reachable state the material of each plane entity is that
\* of a floor if its plane's orientation is horizontal and that of a wall if
\* it is vertical.
C19_RoleFollowsOrientation ==
  \A p \in Tracked \cap Live :
    /\ world[p].orientation = "horizontal" =>
         planes[p].material \in FloorMaterials
    /\ world[p].orientation = "vertical" =>
         planes[p].material \in WallMaterials

\* a floor and a wall are tracked, the wall after a rebuild of its boundary
C19_Witness ==
  \E p \in Tracked \cap Live, q \in Tracked \cap Live :
    /\ world[p].orientation = "horizontal"
    /\ planes[p].material \in FloorMaterials
    /\ world[q].orientation = "vertical"
    /\ planes[q].material \in WallMaterials
    /\ planes[q].lastChangedTime = 1


\* C20: after the first frame that reports a plane not seen before (and has
\* a pose for it), an entity exists for the plane, with the material of its
\* role and a bounded geometry built from the plane's polygon, whether the
\* plane is horizontal or vertical.
C20_FirstSightingBuildsBounded ==
  [][(last'.op = "frame" /\ ~last'.threw) =>
       \A p \in last'.posed \ (Tracked \cup lastReported) :
         /\ p \in DOMAIN planes'
         /\ p \in scenePlanes'
         /\ planes'[p].material \in
              (IF world[p].orientation = "horizontal"
               THEN FloorMaterials ELSE WallMaterials)
         /\ planes'[p].geometry = ShapeGeometry(world[p].polygon)]_vars


\* C21: while an entity is in infinite mode its geometry is the one built
\* when it entered that mode: no step replaces or disposes it as long as the
\* entity is in the map, whatever happens to the plane's change-stamp and
\* polygon.
C21_InfiniteBuiltOnce ==
  [][\A p \in Infinite \cap DOMAIN planes' :
       /\ planes'[p].geometry = planes[p].geometry
       /\ ~planes'[p].geometry.disposed
       /\ (last'.op = "frame") =>
            p \notin last'.rebuilt /\ planes[p].geometry \notin last'.replaced
    ]_vars

\* a frame gave a pose to an infinite entity whose plane's boundary and stamp
\* had changed since it was built, and left its geometry alone
C21_Witness ==
  /\ last.op = "frame"
  /\ \E p \in last.posed \cap Infinite :
       /\ p \notin last.rebuilt
       /\ world[p].lastChangedTime = 1
       /\ world[p].polygon = Triangle
       /\ planes[p].geometry = InfiniteGeometry


\* C22: when the geometry of an entity is replaced, the previous one is
\* disposed and the new one is not: in every state the geometry an entity
\* refers to is not disposed, and after a frame every geometry the frame
\* replaced is disposed, one for each entity it rebuilt.
C22_DisposeBeforeInstall ==
  /\ \A p \in Tracked : ~planes[p].geometry.disposed
  /\ (last.op = "frame") =>
       /\ \A g \in last.replaced : g.disposed
       /\ (last.rebuilt # {}) => (last.replaced # {})

\* a frame replaced the square boundary of an entity by the triangle: the
\* square's geometry is disposed and the triangle's is in use
C22_Witness ==
  /\ last.op = "frame"
  /\ Dispose(ShapeGeometry(Square)) \in last.replaced
  /\ \E p \in last.rebuilt : planes[p].geometry = ShapeGeometry(Triangle)


\* C23: when the session ends and the entities are torn down, their
\* geometries are released: after the end handler none of the geometries of
\* the entities it removed is left undisposed.
C23_ReleasedOnTeardown ==
  (last.op = "end") => \A g \in last.replaced : g.disposed


\* C24: the texture returned by createTileTexture(colorA, colorB, d) repeats
\* in both axes, with the repeat count (d, d), for every density d > 0; so do
\* the two textures made at mount, with densities 4 and 2.
C24_RepeatIsDensity ==
  /\ (last.op = "init") =>
       textures.floor.repeat = << 4, 4 >> /\ textures.wall.repeat = << 2, 2 >>
  /\ (last.op = "createTileTexture") =>
       /\ textures[last.args[1]].wrapS = "RepeatWrapping"
       /\ textures[last.args[1]].wrapT = "RepeatWrapping"
       /\ textures[last.args[1]].repeat = << last.args[4], last.args[4] >>


\* what the hit-test input of the frame that ran last makes of the reticle r:
\* a function of r and of the input only
ReticleFromInput(r, l) ==
  IF ~l.tested THEN r
  ELSE IF l.nresults = 0 THEN [r EXCEPT !.visible = FALSE]
  ELSE [visible |-> TRUE, matrix |-> l.top,
        color |-> IF Abs(l.top.upY) > HalfUp THEN "0x00ff00" ELSE "0x00ffff"]

\* C25: the reticle after a frame is determined by the reticle before it and
\* the frame's hit-test input alone, whatever planes are detected, tracked
\* or posed in the frame; and a frame in which no plane has a pose, so that
\* only handleHitTest acts, leaves the plane map and the scene as they were.
C25_ReticleIndependentOfPlanes ==
  [][(last'.op = "frame" /\ ~last'.threw) =>
       /\ reticle' = ReticleFromInput(reticle, last')
       /\ (last'.posed = {}) =>
            planes' = planes /\ scenePlanes' = scenePlanes]_vars

\* a frame had a hit-test result and built a plane entity at another pose:
\* the reticle is at the pose of the result
C25_Witness ==
  /\ last.op = "frame"
  /\ last.nresults = 1
  /\ reticle.visible
  /\ reticle.matrix = FloorHit
  /\ last.rebuilt # {}
  /\ \E p \in Tracked : planes[p].matrix # reticle.matrix


\* C26: in every reachable state the plane map has one entity for each plane
\* identity it holds, and the plane meshes in the scene are exactly the
\* meshes of the map's entries.
C26_SceneMatchesMap ==
  /\ scenePlanes = DOMAIN planes
  /\ DOMAIN planes \subseteq PlaneIds
  /\ Cardinality(scenePlanes) = Cardinality(DOMAIN planes)

\* in the second session, after the teardown of the first, two entities were
\* built again and both are in the scene
C26_Witness ==
  /\ session = 2
  /\ last.op = "frame"
  /\ Cardinality(Tracked) = 2
  /\ scenePlanes = Tracked


\* C27: after every frame in which a plane in bounded mode is reported with a
\* pose, the entity's last-applied change-stamp is the plane's change-stamp
\* and its geometry is the one built from the plane's current polygon.
C27_StampApplied ==
  (last.op = "frame" /\ ~last.threw) =>
    \A p \in last.posed :
      ~IsInfinite(planes[p]) =>
        /\ planes[p].lastChangedTime = world[p].lastChangedTime
        /\ planes[p].geometry.type = "ShapeGeometry"
        /\ planes[p].geometry.polygon = world[p].polygon

\* the boundary of a tracked plane changed from the square to the triangle,
\* and the frame that followed rebuilt the entity from the triangle
C27_Witness ==
  /\ last.op = "frame"
  /\ \E p \in last.rebuilt :
       /\ Dispose(ShapeGeometry(Square)) \in last.replaced
       /\ world[p].polygon = Triangle
       /\ planes[p].geometry.polygon = Triangle
       /\ planes[p].lastChangedTime = world[p].lastChangedTime


\* the entities in bounded mode whose plane is still reported
Bounded ==
  {p \in Tracked \cap Live : planes[p].geometry.type = "ShapeGeometry"}

Range(f) == {f[i] : i \in DOMAIN f}

\* C28: the vertices of a bounded mesh are the boundary points of the plane's
\* polygon: for every point (x, z) of the polygon the mesh has a vertex at
\* plane-local (x, 0, z), and it has no other vertex.
C28_MeshCoversPolygon ==
  \A p \in Bounded :
    Range(PositionOf(planes[p].geometry)) =
      {<< pt[1], 0, pt[2] >> : pt \in Range(planes[p].geometry.polygon)}

\* C29: for every bounded mesh, of a horizontal or of a vertical plane, there
\* is one factor k such that the uv of every vertex is (k * x, k * z), where
\* (x, 0, z) is the position of the vertex in the geometry.
C29_UvIsScaledPosition ==
  \A p \in Bounded :
    \E k \in 1..UvScale :
      \A i \in DOMAIN planes[p].geometry.polygon :
        UvOf(variant, world[p].orientation, planes[p].geometry)[i] =
          << k * PositionOf(planes[p].geometry)[i][1],
             k * PositionOf(planes[p].geometry)[i][3] >>


\* C30: in the declarative viewer every selection event adds exactly one item
\* at the end of the list and keeps the items that were there, also when
\* several events are handled before the component renders again: n events
\* give n items in the order of the events.
C30_EveryPlacementKept ==
  [][(last'.op = "placeItem") =>
       /\ Len(dItems') = Len(dItems) + 1
       /\ \A i \in 1..Len(dItems) : dItems'[i] = dItems[i]]_vars

\* C31: whenever no session is active the stored hit-test source is null,
\* and the stored source, which is the one every frame hit-tests with, is
\* never one obtained for an earlier session, whenever the source promise
\* settles, also after the end event.
C31_SourceBelongsToSession ==
  /\ session = 0 => hitTestSource = 0
  /\ hitTestSource # 0 => hitTestSource = session

\* C32: in every session the hit-test source is requested exactly once, by
\* the session's first frame: no request has been made when the session
\* starts, one has been made after every frame of it, in the first session
\* and in every later one, and nothing but a frame makes a request.
C32_OneSourceRequestPerSession ==
  [][/\ last'.op = "startAR" => requests' = 0
     /\ (last'.op = "frame" /\ last.op = "startAR") => requests' = requests + 1
     /\ last'.op = "frame" => requests' = 1
     /\ requests' > requests => last'.op = "frame"]_vars

\* a later frame of the second session: its source has been delivered, and
\* one request has been made in it
C32_Witness ==
  /\ last.op = "frame"
  /\ session = 2
  /\ hitTestSource = 2
  /\ requests = 1

\* C33: a callback of the animation loop that is given no XR frame leaves
\* the plane map, the scene's planes, the reticle, the hit-test source
\* fields and the placed objects as they were, and ends without an error.
C33_NoFrameChangesNothing ==
  [][last'.op = "noframe" =>
       /\ planes' = planes
       /\ scenePlanes' = scenePlanes
       /\ reticle' = reticle
       /\ hitTestSourceRequested' = hitTestSourceRequested
       /\ hitTestSource' = hitTestSource
       /\ pendingSource' = pendingSource
       /\ items' = items
       /\ ~last'.threw]_vars

\* the callback ran without a frame after a session in which an object was
\* placed, while a source promise was still in flight
C33_Witness ==
  /\ last.op = "noframe"
  /\ Len(items) > 0
  /\ pendingSource # {}

\* the raw viewer's session is live and startAR has requested its first frame
RawRunning == raw.sessions > 0 /\ ~raw.ended /\ raw.referenceSpace

\* C34: in the raw WebGL viewer every call of onXRFrame leaves exactly one
\* frame callback pending, with or without a viewer pose; a frame without a
\* viewer pose draws nothing; a callback is pending only once
\* session.referenceSpace is assigned; and while the session lasts another
\* frame is always delivered.
C34_FrameLoopKeepsRunning ==
  /\ [][/\ last'.op = "onXRFrame" =>
             /\ raw.scheduled = 1
             /\ raw'.scheduled = 1
             /\ ~last'.threw
             /\ ~raw'.viewerPose => raw'.drawn = {}
        /\ raw'.scheduled > 0 => raw'.referenceSpace]_vars
  /\ \A b \in {0, 1} :
       (RawRunning /\ raw.tick = b) ~> (~RawRunning \/ raw.tick # b)

\* a frame without a viewer pose was delivered in the second session, and
\* the next callback is pending
C34_Witness ==
  /\ last.op = "onXRFrame"
  /\ raw.sessions = 2
  /\ ~raw.viewerPose
  /\ raw.drawn = {}
  /\ raw.scheduled = 1

\* C35: the objects of the list have pairwise distinct ids, whatever the
\* placement events were and however close in time they were handled.
C35_DistinctIds ==
  \A i, j \in 1..Len(mock.objects) :
    i # j => mock.objects[i].id # mock.objects[j].id

====
